---- MODULE Spec2Model ----
(***************************************************************************)
(* The quiz page of quiz.py as a state machine.  The page is a Streamlit   *)
(* script: every user interaction re-executes start_quiz() from the top,   *)
(* reading and writing st.session_state, which persists between runs.      *)
(* One action of the model is one such run (a render pass), named after    *)
(* the interaction that triggered it.  The pass that handles a submission  *)
(* stops before line 90, and Advance executes line 90, so that the state   *)
(* between the two counter updates of a submission is a state of the model.*)
(***************************************************************************)
EXTENDS Integers, Sequences, FiniteSets, TLC

\* ------------------------------------------------------------------ bounds

\* Largest value of the question-count slider that the model explores.
MaxCount == 2

\* Number of provider calls after which the model stops clicking Start.
MaxFetch == 2

\* ------------------------------------------------------- values and inputs

\* Python's None (an unset selection, an unset category or difficulty).
None == "None"

\* The records the provider can deliver: question, correct_answer,
\* incorrect_answers, as in the JSON of the response.
Pool ==
    { [question |-> "2+2?", correct_answer |-> "4",
       incorrect_answers |-> <<"3">>],
      [question |-> "Capital of France?", correct_answer |-> "Paris",
       incorrect_answers |-> <<"Lyon">>] }

\* Lists of n records; one response does not repeat a question.
ListsOf(n) == { l \in [1..n -> Pool] : \A i, j \in 1..n : l[i] = l[j] => i = j }

\* Every list the provider can deliver (possibly none at all).
Deliverable == UNION { ListsOf(n) : n \in 0..MaxCount }

\* The provider's answers that carry no results: no answer at all, a
\* non-200 status, a response_code other than 0.
Failures ==
    { [kind |-> "unreachable", status_code |-> 0, response_code |-> 0, results |-> <<>>],
      [kind |-> "reply", status_code |-> 500, response_code |-> 0, results |-> <<>>],
      [kind |-> "reply", status_code |-> 200, response_code |-> 1, results |-> <<>>] }

\* What the provider can answer to one request for `amount` questions: a
\* failure, or response_code 0 with at most `amount` results.
Responses(amount) ==
    Failures
    \cup { [kind |-> "reply", status_code |-> 200, response_code |-> 0, results |-> l] :
             l \in { d \in Deliverable : Len(d) <= amount } }

\* Texts of the category box, as sequences of characters: empty, blank,
\* "0", "7" and "x".
CategoryInputs == { <<>>, <<" ">>, <<"0">>, <<"7">>, <<"x">> }

DifficultyOptions == { "Random", "Easy", "Medium", "Hard" }

Digits == { "0", "1", "2", "3", "4", "5", "6", "7", "8", "9" }

Range(s) == { s[k] : k \in DOMAIN s }

\* ------------------------------------------------------------------- state

VARIABLES
    session_state,   \* st.session_state: quiz_data, current_question, score,
                     \* quiz_finished, all_answers_<i>, selected_<i>
    category_input,  \* text of the category box
    difficulty,      \* option of the difficulty selectbox
    question_count,  \* value of the slider
    radio,           \* widget state of the radio q<key>: [key, value]
    screen,          \* what the last pass rendered
    fetch_count,     \* number of requests.get calls so far
    request,         \* query of the URL requested in the last pass, <<>> if none
    pc               \* "idle" between passes, "line90" inside a submission

vars == << session_state, category_input, difficulty, question_count,
           radio, screen, fetch_count, request, pc >>

\* quiz_data = <<>> stands for the key being absent from st.session_state
\* (line 118 stores only non-empty lists); current_question, score and
\* quiz_finished are read only when quiz_data is present.
NoSession ==
    [ quiz_data |-> <<>>, current_question |-> 0, score |-> 0,
      quiz_finished |-> FALSE, all_answers |-> <<>>, selected |-> <<>> ]

NoRadio == [ key |-> -1, value |-> None ]

\* A pass that rendered nothing below the category box.
Blank ==
    [ config |-> FALSE, question |-> -1, message |-> "none",
      feedback |-> "none", summary |-> <<>> ]

\* ------------------------------------------------ start_quiz: configuration

\* str.isdigit(): non-empty and every character a digit.
isdigit(s) == Len(s) > 0 /\ \A k \in DOMAIN s : s[k] \in Digits

\* str.strip() == "": nothing but whitespace.
isblank(s) == \A k \in DOMAIN s : s[k] = " "

DigitValue(c) == CHOOSE n \in 0..9 : c = <<"0", "1", "2", "3", "4", "5", "6", "7", "8", "9">>[n + 1]

\* int() of a digit string.
RECURSIVE int(_)
int(s) == IF Len(s) = 0 THEN 0
          ELSE 10 * int(SubSeq(s, 1, Len(s) - 1)) + DigitValue(s[Len(s)])

\* ValidCategory without the validation: every text is accepted.
ValidCategoryLax(s) == TRUE

\* Lines 100-106: whether the text is accepted (else the pass returns).
ValidCategory(s) == isdigit(s) \/ isblank(s)

\* Lines 100-103: the category handed to get_quiz_data, <<n>> for the
\* integer n and <<>> for None.
category_of(s) == IF isdigit(s) THEN << int(s) >> ELSE <<>>

\* Line 109: the difficulty handed to get_quiz_data, <<d>> or <<>> for None.
difficulty_of(d) ==
    IF d # "Random"
    THEN << CASE d = "Easy" -> "easy" [] d = "Medium" -> "medium" [] OTHER -> "hard" >>
    ELSE <<>>

\* ------------------------------------------------------------ get_quiz_data

\* Lines 17-28: the query of the URL, as its parameters in order.  `if
\* category:` and `if difficulty:` are Python truth tests: None and 0 fail.
request_url(category, dif, count) ==
    << <<"amount", count>> >>
    \o (IF category # <<>> /\ category[1] # 0 THEN << <<"category", category[1]>> >> ELSE <<>>)
    \o (IF dif # <<>> THEN << <<"difficulty", dif[1]>> >> ELSE <<>>)
    \o << <<"type", "multiple">> >>

\* Lines 30-42 on the provider's answer: requests.get raises when there is
\* no answer; otherwise an error message and [], or the results.
get_quiz_data(resp) ==
    IF resp.kind = "unreachable"
    THEN [ raised |-> TRUE, message |-> "exception", data |-> <<>> ]
    ELSE IF resp.status_code # 200
    THEN [ raised |-> FALSE, message |-> "transport", data |-> <<>> ]
    ELSE IF resp.response_code # 0
    THEN [ raised |-> FALSE, message |-> "no_results", data |-> <<>> ]
    ELSE [ raised |-> FALSE, message |-> "none", data |-> resp.results ]

\* A pass in which Start Quiz was not pressed.
NoFetch == [ raised |-> FALSE, message |-> "none", data |-> <<>> ]

\* --------------------------------------------------------- display_question

\* Line 62: incorrect_answers + [correct_answer].
CombinedAnswers(question_data) ==
    question_data.incorrect_answers \o << question_data.correct_answer >>

\* Line 63: the orders random.shuffle can leave the list in.
Shuffles(s) ==
    { p \in [1..Len(s) -> Range(s)] :
        \A x \in Range(s) :
            Cardinality({ k \in 1..Len(s) : p[k] = x })
                = Cardinality({ k \in 1..Len(s) : s[k] = x }) }

\* The list s back to front.
Reversed(s) == [ k \in 1..Len(s) |-> s[Len(s) + 1 - k] ]

\* CacheAnswers that reorders a list it finds cached.
CacheAnswersReorders(ss, idx, shuffled) ==
    IF idx \in DOMAIN ss.all_answers
    THEN [ ss EXCEPT !.all_answers[idx] = Reversed(@) ]
    ELSE [ ss EXCEPT !.all_answers = (idx :> shuffled) @@ @ ]

\* CacheAnswers that shuffles in place: the shuffled list, less its last
\* element, is written back as the record's incorrect_answers.
CacheAnswersInPlace(ss, idx, shuffled) ==
    IF idx \in DOMAIN ss.all_answers
    THEN ss
    ELSE [ ss EXCEPT !.all_answers = (idx :> shuffled) @@ @,
                     !.quiz_data[idx + 1].incorrect_answers =
                         SubSeq(shuffled, 1, Len(shuffled) - 1) ]

\* Lines 61-63: the answer list is built and shuffled only when the key
\* all_answers_<idx> is not in the session state.
CacheAnswers(ss, idx, shuffled) ==
    IF idx \in DOMAIN ss.all_answers
    THEN ss
    ELSE [ ss EXCEPT !.all_answers = (idx :> shuffled) @@ @ ]

\* Lines 71-72.
InitSelected(ss, idx) ==
    IF idx \in DOMAIN ss.selected
    THEN ss
    ELSE [ ss EXCEPT !.selected = (idx :> None) @@ @ ]

\* Line 76: list.index raises ValueError when the stored selection is not
\* in the list; a None selection is falsy and gives position 0.
IndexRaises(ss, idx) ==
    ss.selected[idx] # None /\ ss.selected[idx] \notin Range(ss.all_answers[idx])

RadioIndex(ss, idx) ==
    IF ss.selected[idx] # None
    THEN (CHOOSE k \in DOMAIN ss.all_answers[idx] :
             /\ ss.all_answers[idx][k] = ss.selected[idx]
             /\ \A j \in 1..(k - 1) : ss.all_answers[idx][j] # ss.selected[idx]) - 1
    ELSE 0

\* Lines 75-77: st.radio returns the widget's value when the widget q<idx>
\* has state from the previous run, else the option at `index`.
RadioValue(ss, idx, rad) ==
    IF rad.key = idx THEN rad.value ELSE ss.all_answers[idx][RadioIndex(ss, idx) + 1]

\* Submit that counts every submission as correct.
SubmitAlwaysScores(ss, idx, selected_answer, correct_answer) ==
    [ ss EXCEPT !.selected = (idx :> selected_answer) @@ @,
                !.score = @ + 1 ]

\* Submit with a correct answer counted twice.
SubmitCountsTwice(ss, idx, selected_answer, correct_answer) ==
    [ ss EXCEPT !.selected = (idx :> selected_answer) @@ @,
                !.score = IF selected_answer = correct_answer THEN @ + 2 ELSE @ ]

\* Lines 81-87: the submission up to, not including, line 90.
Submit(ss, idx, selected_answer, correct_answer) ==
    [ ss EXCEPT !.selected = (idx :> selected_answer) @@ @,
                !.score = IF selected_answer = correct_answer THEN @ + 1 ELSE @ ]

\* Lines 84 and 87.
Feedback(selected_answer, correct_answer) ==
    IF selected_answer = correct_answer THEN "correct" ELSE "wrong"

\* NextQuestion that moves on by two.
NextQuestionSkips(ss) == [ ss EXCEPT !.current_question = @ + 2 ]

\* NextQuestion without the increment.
NextQuestionStays(ss) == ss

\* Line 90.
NextQuestion(ss) == [ ss EXCEPT !.current_question = @ + 1 ]

\* ----------------------------------------------------- start_quiz: session

\* InitSession that also drops the cached answer lists.
InitSessionClearsAnswers(ss, quiz_data) ==
    [ ss EXCEPT !.current_question = 0, !.score = 0,
                !.quiz_finished = FALSE, !.quiz_data = quiz_data,
                !.all_answers = <<>> ]

\* InitSession that keeps the score of the session before.
InitSessionKeepsScore(ss, quiz_data) ==
    [ ss EXCEPT !.current_question = 0,
                !.quiz_finished = FALSE, !.quiz_data = quiz_data ]

\* Lines 120-123.  The keys all_answers_<i> and selected_<i> are not
\* touched.
InitSession(ss, quiz_data) ==
    [ ss EXCEPT !.current_question = 0, !.score = 0,
                !.quiz_finished = FALSE, !.quiz_data = quiz_data ]

\* AfterStart that clears the score whenever Start Quiz was pressed.
AfterStartClearsScore(ss, start, fetched) ==
    IF start
    THEN IF fetched.data # <<>>
         THEN InitSession(ss, fetched.data)
         ELSE [ ss EXCEPT !.score = 0 ]
    ELSE ss

\* AfterStart with the counters reset before the fetched list is tested.
AfterStartResetsFirst(ss, start, fetched) ==
    IF start
    THEN IF fetched.data # <<>>
         THEN InitSession(ss, fetched.data)
         ELSE [ ss EXCEPT !.current_question = 0, !.score = 0 ]
    ELSE ss

\* Line 118: `if quiz_data:` is false for the empty list.
AfterStart(ss, start, fetched) ==
    IF start /\ fetched.data # <<>> THEN InitSession(ss, fetched.data) ELSE ss

\* Dispatches without the test of quiz_finished.
DispatchesAlways(ss) == ss.quiz_data # <<>>

\* Line 126.
Dispatches(ss) == ss.quiz_data # <<>> /\ ~ss.quiz_finished

\* Line 130.
HasCurrent(ss) == ss.current_question < Len(ss.quiz_data)

\* Line 135.
Finish(ss) == [ ss EXCEPT !.quiz_finished = TRUE ]

\* Line 134: the two numbers of the summary line.
Summary(ss) == << ss.score, Len(ss.quiz_data) >>

\* ------------------------------------------------------------- render pass

\* The configuration widgets of lines 108-114 were rendered.
ConfigOnly(message) == [ Blank EXCEPT !.config = TRUE, !.message = message ]

\* Lines 97-106 with an invalid category: the error, and the script returns.
\* Streamlit drops the state of widgets a completed run did not render.
RejectCategory ==
    /\ session_state' = session_state
    /\ radio' = NoRadio
    /\ screen' = [ Blank EXCEPT !.message = "invalid_category" ]
    /\ fetch_count' = fetch_count
    /\ pc' = "idle"

\* An exception leaves the script: Streamlit shows it in place of the rest
\* of the page and keeps the widget state of the interrupted run.
Abort(ss, fetches, rad) ==
    /\ session_state' = ss
    /\ radio' = rad
    /\ screen' = ConfigOnly("exception")
    /\ fetch_count' = fetch_count + fetches
    /\ pc' = "idle"

\* Pressed that takes the press of any Submit Answer button.
PressedAnyKey(submit, idx) == submit # -1

\* Line 80: st.button is true in the run that follows a press of the button
\* with this key, submit_<idx>.
Pressed(submit, idx) == submit = idx

\* Lines 131-132 and display_question: question idx is presented; with
\* `submit` the button submit_<idx> was pressed.
Present(ss, message, fetches, rad, submit, shuffled) ==
    LET idx == ss.current_question
        question_data == ss.quiz_data[idx + 1]
        ss1 == InitSelected(CacheAnswers(ss, idx, shuffled), idx)
        selected_answer == RadioValue(ss1, idx, rad)
        pressed == Pressed(submit, idx)
    IN  IF IndexRaises(ss1, idx)
        THEN Abort(ss1, fetches, rad)
        ELSE /\ session_state' =
                    IF pressed
                    THEN Submit(ss1, idx, selected_answer, question_data.correct_answer)
                    ELSE ss1
             /\ radio' = [ key |-> idx, value |-> selected_answer ]
             /\ screen' = [ config |-> TRUE, question |-> idx, message |-> message,
                            feedback |-> IF pressed
                                         THEN Feedback(selected_answer, question_data.correct_answer)
                                         ELSE "none",
                            summary |-> <<>> ]
             /\ fetch_count' = fetch_count + fetches
             /\ pc' = IF pressed THEN "line90" ELSE "idle"

\* Lines 126-135.
Render(ss, message, fetches, rad, submit) ==
    IF Dispatches(ss)
    THEN IF HasCurrent(ss)
         THEN \E shuffled \in
                    IF ss.current_question \in DOMAIN ss.all_answers
                    THEN { <<>> }
                    ELSE Shuffles(CombinedAnswers(ss.quiz_data[ss.current_question + 1])) :
                  Present(ss, message, fetches, rad, submit, shuffled)
         ELSE /\ session_state' = Finish(ss)
              /\ radio' = NoRadio
              /\ screen' = [ ConfigOnly(message) EXCEPT !.summary = Summary(ss) ]
              /\ fetch_count' = fetch_count + fetches
              /\ pc' = "idle"
    ELSE /\ session_state' = ss
         /\ radio' = NoRadio
         /\ screen' = ConfigOnly(message)
         /\ fetch_count' = fetch_count + fetches
         /\ pc' = "idle"

\* Calls that tries a second time when the provider sent no results.
CallsRetrying(start, resp) ==
    IF start
    THEN IF get_quiz_data(resp).data = <<>> THEN 2 ELSE 1
    ELSE 0

\* Lines 114-116 and 30: the requests.get calls of one pass, one if Start
\* Quiz was pressed and none otherwise, whatever the provider answers.
Calls(start, resp) == IF start THEN 1 ELSE 0

\* One execution of start_quiz (lines 92-135) with the widgets holding cat,
\* dif and cnt, the radio state rad, Start Quiz pressed iff `start` (the
\* provider then answering resp) and Submit Answer of question `submit`
\* pressed (-1: none).
Pass(cat, dif, cnt, rad, start, resp, submit) ==
    /\ pc = "idle"
    /\ category_input' = cat
    /\ difficulty' = dif
    /\ question_count' = cnt
    /\ IF ~ValidCategory(cat)
       THEN RejectCategory
       ELSE LET fetched == IF start THEN get_quiz_data(resp) ELSE NoFetch
                fetches == Calls(start, resp)
            IN  IF fetched.raised
                THEN Abort(session_state, fetches, rad)
                ELSE Render(AfterStart(session_state, start, fetched),
                            fetched.message, fetches, rad, submit)
    /\ request' = IF start /\ ValidCategory(cat)
                  THEN request_url(category_of(cat), difficulty_of(dif), cnt)
                  ELSE <<>>

\* ----------------------------------------------------------------- actions

NoResponse == [ kind |-> "none", status_code |-> 0, response_code |-> 0, results |-> <<>> ]

\* The slider of line 111: 1 to 20, initially 5 (here: up to MaxCount).
SliderMin == 1
SliderDefault == 5
SliderInit == IF SliderDefault <= MaxCount THEN SliderDefault ELSE MaxCount

\* The page after its first run: empty category, no session.
Init ==
    /\ session_state = NoSession
    /\ category_input = <<>>
    /\ difficulty = "Random"
    /\ question_count = SliderInit
    /\ radio = NoRadio
    /\ screen = ConfigOnly("none")
    /\ fetch_count = 0
    /\ request = <<>>
    /\ pc = "idle"

\* The user changes the category text.
EditCategory ==
    \E cat \in CategoryInputs \ { category_input } :
        Pass(cat, difficulty, question_count, radio, FALSE, NoResponse, -1)

\* The user picks another difficulty.
SelectDifficulty ==
    /\ screen.config
    /\ \E dif \in DifficultyOptions \ { difficulty } :
        Pass(category_input, dif, question_count, radio, FALSE, NoResponse, -1)

\* The user moves the slider.
SlideCount ==
    /\ screen.config
    /\ \E cnt \in (SliderMin..MaxCount) \ { question_count } :
        Pass(category_input, difficulty, cnt, radio, FALSE, NoResponse, -1)

\* The user picks another choice of the question on screen.
SelectAnswer ==
    /\ screen.question # -1
    /\ \E a \in Range(session_state.all_answers[screen.question]) \ { radio.value } :
        Pass(category_input, difficulty, question_count,
             [ key |-> screen.question, value |-> a ], FALSE, NoResponse, -1)

\* Start Quiz is pressed with the category box holding cat, and the provider
\* answers resp.
StartStep(cat, resp) ==
    /\ screen.config
    /\ fetch_count < MaxFetch
    /\ Pass(cat, difficulty, question_count, radio, TRUE, resp, -1)

\* The user presses Start Quiz, possibly right after typing a category (the
\* text and the press then reach the same run).
ClickStart ==
    \E cat \in CategoryInputs, resp \in Responses(question_count) :
        StartStep(cat, resp)

\* The user presses Submit Answer of the question on screen.
ClickSubmit ==
    /\ screen.question # -1
    /\ Pass(category_input, difficulty, question_count, radio, FALSE, NoResponse,
            screen.question)

\* Line 90, which ends the pass of a submission.
Advance ==
    /\ pc = "line90"
    /\ session_state' = NextQuestion(session_state)
    /\ pc' = "idle"
    /\ UNCHANGED << category_input, difficulty, question_count, radio, screen,
                    fetch_count, request >>

Next ==
    \/ EditCategory
    \/ SelectDifficulty
    \/ SlideCount
    \/ SelectAnswer
    \/ ClickStart
    \/ ClickSubmit
    \/ Advance

Spec == Init /\ [][Next]_vars

TypeOK ==
    /\ pc \in { "idle", "line90" }
    /\ session_state.current_question \in 0..MaxCount
    /\ session_state.score \in 0..MaxCount
    /\ fetch_count \in 0..MaxFetch
    /\ category_input \in CategoryInputs
    /\ question_count \in SliderMin..MaxCount
    /\ (screen.question # -1 => radio.key = screen.question)

\* ------------------------------------------------------------- properties

Questions == session_state.quiz_data
N == Len(Questions)
SessionExists == Questions # <<>>

\* s and t hold the same elements, each as often (t is a permutation of s),
\* and no element twice.
IsPermutationOf(s, t) ==
    /\ Len(s) = Len(t)
    /\ Range(s) = Range(t)
    /\ Cardinality(Range(s)) = Len(s)

\* C1 (as claimed): every cached answer set of a question index of the
\* current session is a duplicate-free permutation of that question's
\* correct and incorrect answers.
C1_AnswerSetsOfCurrentSession ==
    \A i \in DOMAIN session_state.all_answers :
        i < N => IsPermutationOf(session_state.all_answers[i],
                                 CombinedAnswers(Questions[i + 1]))

\* C2 (as claimed): score <= current_index in every state, the state
\* between the two updates of a submission included.
C2_ScoreAtMostIndexEverywhere ==
    session_state.score <= session_state.current_question

\* C2 (amended): score <= current_index between passes; inside a
\* submission, before line 90, score is at most current_index + 1.
C2_ScoreAtMostIndexBetweenPasses ==
    /\ pc = "idle" => session_state.score <= session_state.current_question
    /\ pc = "line90" => session_state.score <= session_state.current_question + 1

\* C2 witness: a submission has been completed and every answer so far
\* was correct.
C2_Witness ==
    /\ pc = "idle"
    /\ session_state.score = 2
    /\ session_state.current_question = 2

\* The start action with cat and resp fails: validation error, no answer
\* from the provider, non-200 status, response_code # 0 or no results.
StartFails(cat, resp) ==
    \/ ~ValidCategory(cat)
    \/ get_quiz_data(resp).raised
    \/ get_quiz_data(resp).data = <<>>

\* This step is a failed start action on an existing session (the category
\* of the pass is the text the box holds after it).
FailedStartStep ==
    /\ SessionExists
    /\ \E resp \in Responses(question_count) :
           StartFails(category_input', resp) /\ StartStep(category_input', resp)

\* C3 (as claimed): a failed start action leaves every field of an
\* existing session unchanged.
C3_FailedStartChangesNothing ==
    [][FailedStartStep => session_state' = session_state]_vars

\* C3 (amended): a failed start action leaves questions, current_index,
\* score and every cached answer set and stored selection unchanged; the
\* render of the same pass may add the answer set and the empty selection
\* of the current question, and sets finished when current_index = N.
C3_FailedStartKeepsSession ==
    [][FailedStartStep =>
        /\ session_state'.quiz_data = session_state.quiz_data
        /\ session_state'.current_question = session_state.current_question
        /\ session_state'.score = session_state.score
        /\ \A i \in DOMAIN session_state.all_answers :
              /\ i \in DOMAIN session_state'.all_answers
              /\ session_state'.all_answers[i] = session_state.all_answers[i]
        /\ \A i \in DOMAIN session_state.selected :
              /\ i \in DOMAIN session_state'.selected
              /\ session_state'.selected[i] = session_state.selected[i]
        /\ DOMAIN session_state'.all_answers
              \subseteq DOMAIN session_state.all_answers \cup { session_state.current_question }
        /\ DOMAIN session_state'.selected
              \subseteq DOMAIN session_state.selected \cup { session_state.current_question }
        /\ \A i \in DOMAIN session_state'.selected \ DOMAIN session_state.selected :
              session_state'.selected[i] = None
        /\ session_state'.quiz_finished # session_state.quiz_finished =>
              /\ session_state.current_question = N
              /\ session_state'.quiz_finished
    ]_vars

\* C3 witness: a fetch has failed while a session was in progress with an
\* answer already counted.
C3_Witness ==
    /\ SessionExists
    /\ screen.message \in { "transport", "no_results" }
    /\ session_state.current_question = 1
    /\ session_state.score = 1
    /\ screen.question = 1

\* C4 (as claimed): no start action ends in an uncaught exception that
\* aborts the render.
C4_NoUncaughtException ==
    screen.message # "exception"

\* The number of indices of the session whose stored selection is the
\* correct answer.
CorrectSelections ==
    Cardinality({ i \in 0..(N - 1) :
        /\ i \in DOMAIN session_state.selected
        /\ session_state.selected[i] = Questions[i + 1].correct_answer })

\* C5: once current_index = N, score is the number of indices whose
\* selection equals the correct answer.
C5_FinalScoreCountsCorrectSelections ==
    (SessionExists /\ session_state.current_question = N)
        => session_state.score = CorrectSelections

\* C5 witness: a second session of two questions has been completed with
\* one right and one wrong answer.
C5_Witness ==
    /\ SessionExists
    /\ N = 2
    /\ session_state.current_question = N
    /\ session_state.score = 1
    /\ fetch_count = 2

\* C6: a submission on question i stores the chosen answer as selected[i],
\* adds 1 to score iff the chosen text equals the correct answer (lines
\* 81-87), and then adds 1 to current_index (line 90).
C6_SubmissionScoresAndAdvances ==
    [][ /\ (pc = "idle" /\ pc' = "line90") =>
            LET i == session_state.current_question
                chosen == radio.value
                correct == Questions[i + 1].correct_answer
            IN  /\ radio.key = i
                /\ session_state'.selected[i] = chosen
                /\ session_state'.score =
                      session_state.score + (IF chosen = correct THEN 1 ELSE 0)
                /\ session_state'.current_question = i
                /\ session_state'.quiz_data = session_state.quiz_data
        /\ pc = "line90" =>
                /\ session_state'.current_question = session_state.current_question + 1
                /\ session_state'.score = session_state.score
                /\ session_state'.selected = session_state.selected
                /\ pc' = "idle"
    ]_vars

\* C6 witness: a wrong answer to the second question has been submitted
\* after a correct answer to the first.
C6_Witness ==
    /\ pc = "idle"
    /\ screen.feedback = "wrong"
    /\ screen.question = 1
    /\ session_state.current_question = 2
    /\ session_state.score = 1

\* This step is a pass that starts a new session.
NewSessionStep ==
    \E resp \in Responses(question_count) :
        ~StartFails(category_input', resp) /\ StartStep(category_input', resp)

\* C7 (as claimed): when current_index = N and the summary is due, the
\* next pass of the session, whatever triggered it, sets finished and shows
\* the summary with score and N.
C7_NextPassShowsSummary ==
    [][ ( /\ pc = "idle"
          /\ SessionExists
          /\ ~session_state.quiz_finished
          /\ session_state.current_question = N
          /\ ~NewSessionStep )
        => /\ session_state'.quiz_finished
           /\ screen'.summary = << session_state.score, N >>
    ]_vars

\* C8 (as claimed): every pass in which a session exists, is not finished
\* and has current_index < N presents questions[current_index], whatever
\* the configuration inputs hold.
C8_PassPresentsCurrentQuestion ==
    [][ ( /\ pc = "idle"
          /\ session_state'.quiz_data # <<>>
          /\ ~session_state'.quiz_finished
          /\ session_state'.current_question < Len(session_state'.quiz_data) )
        => screen'.question = session_state'.current_question
    ]_vars

\* C9: a start action whose fetch returns a non-empty list leaves a
\* session with exactly that list, current_index 0, score 0 and finished
\* false, whatever the session state was before.
C9_SuccessfulStartInitialises ==
    [][ \A resp \in Responses(question_count) :
          \/ /\ session_state'.quiz_data = resp.results
             /\ Len(session_state'.quiz_data) \in 1..question_count
             /\ session_state'.current_question = 0
             /\ session_state'.score = 0
             /\ session_state'.quiz_finished = FALSE
             /\ pc' = "idle"
          \/ StartFails(category_input', resp)
          \/ ~StartStep(category_input', resp)
    ]_vars

\* C9 witness: a second session has just been started over a finished
\* one, with fewer questions than the slider asked for.
C9_Witness ==
    /\ fetch_count = 2
    /\ N = 1
    /\ question_count = 2
    /\ session_state.current_question = 0
    /\ session_state.score = 0
    /\ ~session_state.quiz_finished
    /\ screen.question = 0
    /\ 1 \in DOMAIN session_state.selected
    /\ session_state.selected[1] # None

\* C10 (as claimed): right after a successful start action the session
\* holds no answer set and no selection of an earlier session: its state
\* is that of a first start with the same list, whose first question has
\* just been presented.
C10_SuccessfulStartOverwritesAll ==
    [][ \A resp \in Responses(question_count) :
          (~StartFails(category_input', resp) /\ StartStep(category_input', resp)) =>
              /\ DOMAIN session_state'.all_answers = { 0 }
              /\ session_state'.all_answers[0]
                    \in Shuffles(CombinedAnswers(resp.results[1]))
              /\ session_state'.selected = (0 :> None)
    ]_vars

\* The text is a non-negative integer in decimal digits.
IntegerText(s) == Len(s) > 0 /\ \A k \in DOMAIN s : s[k] \in Digits

\* The text holds a character that is not a blank.
HasNonBlank(s) == \E k \in DOMAIN s : s[k] # " "

C12_CachedOrderIsStable ==
    [][ \A i \in DOMAIN session_state.all_answers :
            /\ i \in DOMAIN session_state'.all_answers
            /\ session_state'.all_answers[i] = session_state.all_answers[i]
    ]_vars

\* C12 witness: question 0 is presented again, after the user has picked
\* its second choice, and then question 1 after a submission.
C12_Witness ==
    /\ SessionExists
    /\ 0 \in DOMAIN session_state.selected
    /\ session_state.selected[0] = session_state.all_answers[0][2]
    /\ screen.question = 1
    /\ radio.value = session_state.all_answers[1][2]

\* C13: in a session 0 <= current_index <= N; current_index changes only
\* by +1 at the end of a submission or to 0 in a pass that starts a new
\* session; no submission begins once current_index = N.
C13_IndexInRangeAndStepsByOne ==
    /\ [](SessionExists =>
            /\ 0 <= session_state.current_question
            /\ session_state.current_question <= N)
    /\ [][
          /\ (session_state'.current_question # session_state.current_question) =>
                \/ /\ pc = "line90"
                   /\ session_state'.current_question = session_state.current_question + 1
                \/ /\ NewSessionStep
                   /\ session_state'.current_question = 0
          /\ (pc' = "line90") =>
                /\ SessionExists
                /\ session_state.current_question < N
       ]_vars

\* C13 witness: both questions of a session have been submitted.
C13_Witness ==
    /\ SessionExists
    /\ N = 2
    /\ session_state.current_question = N
    /\ pc = "idle"

\* C14: within a session score never decreases; a submission is always of
\* the current question, adds at most 1 and is followed at once by the
\* advance, and current_index never goes back, so no index is submitted
\* twice; no pass taken while feedback is on screen submits anything.
C14_ScoredOncePerQuestion ==
    [][ /\ \/ /\ session_state'.score >= session_state.score
              /\ session_state'.current_question >= session_state.current_question
           \/ NewSessionStep
        /\ (pc = "idle" /\ pc' = "line90") =>
                /\ screen'.question = session_state.current_question
                /\ session_state'.score - session_state.score \in { 0, 1 }
        /\ pc = "idle" => session_state'.score - session_state.score
                              \in { 0, 1, 0 - session_state.score }
        /\ pc = "line90" =>
                /\ pc' = "idle"
                /\ session_state'.score = session_state.score
                /\ session_state'.current_question > session_state.current_question
        /\ (pc = "idle" /\ screen.feedback # "none") =>
                \/ /\ pc' = "idle"
                   /\ session_state'.score = session_state.score
                   /\ \A i \in DOMAIN session_state.selected :
                          /\ i \in DOMAIN session_state'.selected
                          /\ session_state'.selected[i] = session_state.selected[i]
                \/ NewSessionStep
    ]_vars

\* C14 witness: with the feedback of question 0 on screen the user acted
\* again, and question 1 is presented with the score of one submission.
C14_Witness ==
    /\ SessionExists
    /\ N = 2
    /\ session_state.current_question = 1
    /\ session_state.score = 1
    /\ screen.question = 1
    /\ screen.feedback = "none"
    /\ pc = "idle"

\* C15: the provider is called only in a pass in which Start Quiz was
\* pressed with an accepted category, and once in such a pass, whatever the
\* provider answers; every other step leaves the number of calls as it is.
C15_OneFetchPerStart ==
    [][ /\ fetch_count' # fetch_count =>
                /\ fetch_count' = fetch_count + 1
                /\ ValidCategory(category_input')
                /\ \E resp \in Responses(question_count) :
                       StartStep(category_input', resp)
        /\ fetch_count' > fetch_count + 1 =>
                \A resp \in Failures : ~StartStep(category_input', resp)
    ]_vars

\* C15 witness: a start has failed with a transport error after an
\* earlier successful one, two calls in all.
C15_Witness ==
    /\ fetch_count = 2
    /\ screen.message = "transport"
    /\ SessionExists

\* The parameters of a request that are named `name`.
Params(name) == { k \in DOMAIN request : request[k][1] = name }

\* C16: the request of a start carries a category parameter exactly when the
\* accepted text is a non-negative integer ("0" included), with that value,
\* a difficulty parameter exactly when the difficulty is not Random, and
\* always the amount and type=multiple.
C16_RequestCarriesSetParameters ==
    request # <<>> =>
        /\ (Params("category") # {}) <=> IntegerText(category_input)
        /\ \A k \in Params("category") : request[k][2] = int(category_input)
        /\ (Params("difficulty") # {}) <=> (difficulty # "Random")
        /\ \A k \in Params("amount") : request[k][2] = question_count
        /\ Params("amount") # {}
        /\ \E k \in Params("type") : request[k][2] = "multiple"

\* C17: from a finished session every step that does not start a new
\* session leaves finished true and questions, current_index and score as
\* they are; a failed start action is such a step.
C17_FinishedUntilSuccessfulStart ==
    [][
        /\ (SessionExists /\ session_state.quiz_finished) =>
                \/ /\ session_state'.quiz_finished
                   /\ session_state'.quiz_data = session_state.quiz_data
                   /\ session_state'.current_question = session_state.current_question
                   /\ session_state'.score = session_state.score
                \/ NewSessionStep
        /\ (session_state.quiz_finished /\ ~session_state'.quiz_finished) =>
                ~FailedStartStep
    ]_vars

\* C17 witness: a start action on a finished session has failed with a
\* non-200 status, and the session is still finished.
C17_Witness ==
    /\ SessionExists
    /\ session_state.quiz_finished
    /\ screen.message = "transport"
    /\ fetch_count = 2

\* C18: the question list changes only in a pass that starts a new session;
\* presenting a question, submitting an answer and advancing leave every
\* record's question, correct_answer and incorrect_answers as fetched.
C18_QuestionsNeverMutated ==
    [][ \/ /\ Len(session_state'.quiz_data) = Len(session_state.quiz_data)
           /\ \A k \in DOMAIN session_state.quiz_data :
                  /\ session_state'.quiz_data[k].question
                         = session_state.quiz_data[k].question
                  /\ session_state'.quiz_data[k].correct_answer
                         = session_state.quiz_data[k].correct_answer
                  /\ session_state'.quiz_data[k].incorrect_answers
                         = session_state.quiz_data[k].incorrect_answers
        \/ NewSessionStep
    ]_vars

\* C18 witness: both questions of a session were presented, their answer
\* lists shuffled into an order other than the combined one, and submitted.
C18_Witness ==
    /\ SessionExists
    /\ N = 2
    /\ session_state.current_question = 2
    /\ \A i \in { 0, 1 } :
           /\ i \in DOMAIN session_state.all_answers
           /\ session_state.all_answers[i] # CombinedAnswers(Questions[i + 1])
           /\ IsPermutationOf(session_state.all_answers[i],
                              CombinedAnswers(Questions[i + 1]))

\* C19: every stored selection that is set is an element of the cached
\* answer list of its index.
C19_SelectionIsCachedAnswer ==
    \A i \in DOMAIN session_state.selected :
        session_state.selected[i] # None =>
            /\ i \in DOMAIN session_state.all_answers
            /\ session_state.selected[i] \in Range(session_state.all_answers[i])

\* C19 witness: after a restart question 0 is presented again with the
\* selection of the session before still stored, and that selection is not
\* an answer of the new question 0.
C19_Witness ==
    /\ fetch_count = 2
    /\ SessionExists
    /\ session_state.current_question = 0
    /\ screen.question = 0
    /\ 0 \in DOMAIN session_state.selected
    /\ session_state.selected[0] # None
    /\ session_state.selected[0] \notin Range(CombinedAnswers(Questions[1]))
    /\ radio.value = session_state.selected[0]

\* C20: a pass renders the summary exactly when it changes finished from
\* false to true, and a pass of a finished session that starts no new
\* session renders neither a question nor the summary.
C20_SummaryOnlyInFinishingPass ==
    [][ pc = "idle" =>
            /\ (screen'.summary # <<>>) <=>
                   ( /\ SessionExists
                     /\ ~session_state.quiz_finished
                     /\ session_state'.quiz_finished
                     /\ session_state'.quiz_data = session_state.quiz_data )
            /\ (SessionExists /\ session_state.quiz_finished /\ ~NewSessionStep) =>
                   /\ screen'.question = -1
                   /\ screen'.summary = <<>>
    ]_vars

\* C20 witness: the summary was shown, and a later valid pass of the
\* finished session rendered the configuration alone.
C20_Witness ==
    /\ SessionExists
    /\ session_state.quiz_finished
    /\ pc = "idle"
    /\ screen.config
    /\ screen.question = -1
    /\ screen.summary = <<>>

====
